---------------------------- MODULE Spec2Model ----------------------------
(***************************************************************************)
(* A model of the organization CRUD service: the pagination helper        *)
(* (db/repositories/base.rs), the error translation chain                 *)
(* (error/common/database.rs) and the HTTP handlers                       *)
(* (api/handlers/organization.rs) over a bounded connection pool.         *)
(***************************************************************************)
EXTENDS Integers, Sequences, FiniteSets, TLC

VARIABLES
    pag,         \* the pagination helper's input and, once applied, its output
    errs,        \* the error translation chain's inputs and outputs
    orgs,        \* the organizations table: rows in insertion order
    checkedOut,  \* connections of the pool currently checked out
    task,        \* per worker task: the request in flight
    last,        \* the outcome of the request that finished last
    deleted      \* history: the ids whose delete request was answered 204

vars == <<pag, errs, orgs, checkedOut, task, last, deleted>>

(***************************************************************************)
(* Bounds of the model.                                                    *)
(***************************************************************************)
MaxTotal == 25
MaxPerPage == 10
MaxPage == 3
MaxBigOffset == 2
NumTasks == 2
PoolSize == 1
MaxOrgs == 2

(***************************************************************************)
(* i64 and f64.  TLC's integers are 32 bits wide, so a 64-bit magnitude    *)
(* is a sequence of limbs, least significant first, with no high zero limb *)
(* (zero is the empty sequence).                                           *)
(***************************************************************************)
MantissaBits == 53
I64Bits == 64

\* a limb holds LimbBits bits, so that a shifted limb still fits TLC's integers
LimbBits == 5 * 3
LimbBase == 2 ^ LimbBits

RECURSIVE BN(_)
BN(n) == IF n = 0 THEN <<>> ELSE <<n % LimbBase>> \o BN(n \div LimbBase)

RECURSIVE BNToInt(_)
BNToInt(b) == IF b = <<>> THEN 0 ELSE b[1] + LimbBase * BNToInt(Tail(b))

RECURSIVE BNNorm(_)
BNNorm(b) ==
    IF b = <<>> THEN <<>>
    ELSE IF b[Len(b)] # 0 THEN b
    ELSE BNNorm(SubSeq(b, 1, Len(b) - 1))

BNLimb(b, i) == IF i >= 1 /\ i <= Len(b) THEN b[i] ELSE 0

\* the number of significant bits of a limb
IntBitLen(x) == IF x = 0 THEN 0 ELSE CHOOSE k \in 1..LimbBits : 2 ^ (k - 1) <= x /\ x < 2 ^ k

\* the number of significant bits
BNBitLen(b) == IF b = <<>> THEN 0 ELSE LimbBits * (Len(b) - 1) + IntBitLen(b[Len(b)])

\* bit i, the least significant being bit 1
BNBit(b, i) == (BNLimb(b, ((i - 1) \div LimbBits) + 1) \div (2 ^ ((i - 1) % LimbBits))) % 2

\* -1, 0 or 1 as a < b, a = b, a > b; i is the highest limb still to compare
RECURSIVE BNCmpFrom(_, _, _)
BNCmpFrom(a, b, i) ==
    IF i = 0 THEN 0
    ELSE IF a[i] > b[i] THEN 1
    ELSE IF a[i] < b[i] THEN -1
    ELSE BNCmpFrom(a, b, i - 1)

BNCmp(a, b) ==
    IF Len(a) > Len(b) THEN 1
    ELSE IF Len(a) < Len(b) THEN -1
    ELSE BNCmpFrom(a, b, Len(a))

RECURSIVE BNAddFrom(_, _, _, _)
BNAddFrom(a, b, i, carry) ==
    IF i > Len(a) /\ i > Len(b)
    THEN (IF carry = 1 THEN <<1>> ELSE <<>>)
    ELSE LET s == BNLimb(a, i) + BNLimb(b, i) + carry
         IN  <<s % LimbBase>> \o BNAddFrom(a, b, i + 1, s \div LimbBase)

BNAdd(a, b) == BNAddFrom(a, b, 1, 0)

\* a - b for a >= b
RECURSIVE BNSubFrom(_, _, _, _)
BNSubFrom(a, b, i, borrow) ==
    IF i > Len(a) THEN <<>>
    ELSE LET d == BNLimb(a, i) - BNLimb(b, i) - borrow
         IN  <<d % LimbBase>> \o BNSubFrom(a, b, i + 1, IF d < 0 THEN 1 ELSE 0)

BNSub(a, b) == BNNorm(BNSubFrom(a, b, 1, 0))

\* a * 2^r for r < LimbBits
BNShlBits(a, r) ==
    BNNorm([i \in 1..(Len(a) + 1) |->
              ((BNLimb(a, i) * 2 ^ r) % LimbBase) + (BNLimb(a, i - 1) \div 2 ^ (LimbBits - r))])

BNShl(a, k) ==
    IF a = <<>> THEN <<>>
    ELSE [i \in 1..(k \div LimbBits) |-> 0] \o BNShlBits(a, k % LimbBits)

\* a \div 2^r for r < LimbBits
BNShrBits(a, r) ==
    BNNorm([i \in 1..Len(a) |->
              (a[i] \div 2 ^ r) + ((BNLimb(a, i + 1) % 2 ^ r) * 2 ^ (LimbBits - r))])

BNShr(a, k) ==
    IF k \div LimbBits >= Len(a) THEN <<>>
    ELSE BNShrBits(SubSeq(a, (k \div LimbBits) + 1, Len(a)), k % LimbBits)

BNPow2(k) == BNShl(BN(1), k)

\* whether one of the k low bits of a is set
BNLowNonZero(a, k) ==
    \/ \E i \in 1..(k \div LimbBits) : BNLimb(a, i) # 0
    \/ BNLimb(a, (k \div LimbBits) + 1) % (2 ^ (k % LimbBits)) # 0

\* one step of the long division by d # 0: a bit of the dividend is brought
\* down into the remainder, and the quotient gains a bit
BNDivStep(st, bit, d) ==
    LET r1 == BNAdd(BNShlBits(st.r, 1), BN(bit))
    IN  IF BNCmp(r1, d) >= 0
        THEN [q |-> BNAdd(BNShlBits(st.q, 1), BN(1)), r |-> BNSub(r1, d)]
        ELSE [q |-> BNShlBits(st.q, 1), r |-> r1]

\* the steps for the bits hi down to lo of a, the upper half of them first
\* (halving keeps the evaluation shallow; the remainder stays below d)
RECURSIVE BNDivRange(_, _, _, _, _)
BNDivRange(a, d, hi, lo, st) ==
    IF hi = lo THEN BNDivStep(st, BNBit(a, hi), d)
    ELSE LET mid == (hi + lo) \div 2
             upper == BNDivRange(a, d, hi, mid + 1, st)
         IN  IF BNCmp(upper.r, d) < 0 THEN BNDivRange(a, d, mid, lo, upper) ELSE upper

\* short division by a divisor d of one limb, the limbs i and above of a
RECURSIVE BNDivLimbFrom(_, _, _)
BNDivLimbFrom(a, d, i) ==
    IF i > Len(a) THEN [q |-> <<>>, r |-> 0]
    ELSE LET above == BNDivLimbFrom(a, d, i + 1)
             cur == above.r * LimbBase + a[i]
         IN  [q |-> <<cur \div d>> \o above.q, r |-> cur % d]

\* quotient and remainder of a by d # 0
BNDivMod(a, d) ==
    IF a = <<>> THEN [q |-> <<>>, r |-> <<>>]
    ELSE IF Len(d) = 1
    THEN LET s == BNDivLimbFrom(a, d[1], 1) IN [q |-> BNNorm(s.q), r |-> BN(s.r)]
    ELSE BNDivRange(a, d, BNBitLen(a), 1, [q |-> <<>>, r |-> <<>>])

\* an i64 value: sign and magnitude
I64(n) == [neg |-> n < 0, mag |-> BN(IF n < 0 THEN -n ELSE n)]

I64ToInt(x) == IF x.neg THEN -BNToInt(x.mag) ELSE BNToInt(x.mag)

I64Max == [neg |-> FALSE, mag |-> BNSub(BNPow2(I64Bits - 1), BN(1))]

I64Min == [neg |-> TRUE, mag |-> BNPow2(I64Bits - 1)]

I64Lt(a, b) ==
    IF a.neg /\ ~b.neg THEN TRUE
    ELSE IF ~a.neg /\ b.neg THEN FALSE
    ELSE IF a.neg THEN BNCmp(a.mag, b.mag) > 0
    ELSE BNCmp(a.mag, b.mag) < 0

\* a finite f64 is (-1)^neg * mant * 2^exp with mant of at most MantissaBits
\* bits (the exponent's range is never reached from i64 operands)
F64Fin(neg, mant, exp) == [kind |-> "fin", neg |-> neg, mant |-> mant, exp |-> exp]

\* q (and, with sticky, something below its last bit) rounded to MantissaBits
\* significant bits, to nearest, ties to even: the mantissa and the bits dropped
F64Round(q, sticky) ==
    IF BNBitLen(q) <= MantissaBits THEN [mant |-> q, k |-> 0]
    ELSE LET k == BNBitLen(q) - MantissaBits
             top == BNShr(q, k)
             up == /\ BNBit(q, k) = 1
                   /\ (sticky \/ BNLowNonZero(q, k - 1) \/ BNBit(top, 1) = 1)
         IN  [mant |-> IF up THEN BNAdd(top, BN(1)) ELSE top, k |-> k]

\* `x as f64`
F64FromI64(x) ==
    LET r == F64Round(x.mag, FALSE) IN F64Fin(x.neg, r.mant, r.k)

\* `a / b` on f64
F64Div(a, b) ==
    IF b.mant = <<>>
    THEN (IF a.mant = <<>>
          THEN [kind |-> "nan", neg |-> FALSE, mant |-> <<>>, exp |-> 0]
          ELSE [kind |-> "inf", neg |-> (a.neg # b.neg), mant |-> <<>>, exp |-> 0])
    ELSE IF a.mant = <<>> THEN F64Fin(a.neg # b.neg, <<>>, 0)
    ELSE LET want == MantissaBits + 2 + BNBitLen(b.mant) - BNBitLen(a.mant)
             s == IF want > 0 THEN want ELSE 0
             dm == BNDivMod(BNShl(a.mant, s), b.mant)
             r == F64Round(dm.q, dm.r # <<>>)
         IN  F64Fin(a.neg # b.neg, r.mant, a.exp - b.exp - s + r.k)

\* `x.ceil()`
F64Ceil(x) ==
    IF x.kind # "fin" \/ x.exp >= 0 THEN x
    ELSE LET k == -x.exp
             q == BNShr(x.mant, k)
             frac == BNLowNonZero(x.mant, k)
         IN  F64Fin(x.neg, IF ~x.neg /\ frac THEN BNAdd(q, BN(1)) ELSE q, 0)

\* `x as i64`: towards zero, saturating, NaN to 0
F64ToI64(x) ==
    IF x.kind = "nan" THEN I64(0)
    ELSE IF x.kind = "inf" THEN (IF x.neg THEN I64Min ELSE I64Max)
    ELSE LET m == IF x.exp >= 0 THEN BNShl(x.mant, x.exp)
                  ELSE BNShr(x.mant, -x.exp)
         IN  IF m = <<>> THEN I64(0)
             ELSE IF ~x.neg
             THEN (IF BNBitLen(m) >= I64Bits THEN I64Max ELSE [neg |-> FALSE, mag |-> m])
             ELSE (IF BNCmp(m, I64Min.mag) > 0 THEN I64Min ELSE [neg |-> TRUE, mag |-> m])

(***************************************************************************)
(* Error translation (error/common/database.rs).                           *)
(***************************************************************************)
\* error texts a database or a pool reports
ErrTexts == {"duplicate key", "timed out"}

\* diesel::result::Error: the variants the translation names, and
\* QueryBuilderError for the ones it does not
DieselKinds ==
    {"NotFound", "DatabaseError", "RollbackTransaction", "AlreadyInTransaction",
     "NotInTransaction", "QueryBuilderError"}

\* DatabaseErrorKind, the first field of DieselError::DatabaseError
DieselDbKinds == {"UniqueViolation", "Unknown"}

DieselError(kind, dbkind, info) == [kind |-> kind, dbkind |-> dbkind, info |-> info]

DieselNotFound == DieselError("NotFound", "none", "")

DieselErrors ==
    {DieselError(k, "none", "") :
        k \in {"NotFound", "RollbackTransaction", "AlreadyInTransaction", "NotInTransaction"}}
        \cup {DieselError("DatabaseError", dk, t) : dk \in DieselDbKinds, t \in ErrTexts}
        \cup {DieselError("QueryBuilderError", "none", t) : t \in ErrTexts}

\* error.to_string() of a diesel error
DieselErrorDisplay(e) ==
    CASE e.kind = "NotFound" -> "Record not found"
      [] e.kind = "DatabaseError" -> e.info
      [] e.kind = "RollbackTransaction" -> "The current transaction was aborted"
      [] e.kind = "AlreadyInTransaction" ->
            "Cannot perform this operation while a transaction is open"
      [] e.kind = "NotInTransaction" ->
            "Cannot perform this operation outside of a transaction"
      [] OTHER -> e.info

DatabaseErrorVariants ==
    {"ConnectionFailed", "QueryFailed", "RecordNotFound", "UniqueViolation",
     "TransactionFailed", "PoolError"}

DatabaseError(variant, msg) == [variant |-> variant, msg |-> msg]

\* a slip in the match: no arm for NotFound, which falls to the last arm
DatabaseErrorFromDieselError_NoNotFoundArm(error) ==
    CASE error.kind = "DatabaseError" -> DatabaseError("QueryFailed", error.info)
      [] error.kind = "RollbackTransaction" ->
            DatabaseError("TransactionFailed", DieselErrorDisplay(error))
      [] error.kind = "AlreadyInTransaction" ->
            DatabaseError("TransactionFailed", "Already in transaction")
      [] error.kind = "NotInTransaction" ->
            DatabaseError("TransactionFailed", "Not in transaction")
      [] OTHER -> DatabaseError("QueryFailed", DieselErrorDisplay(error))

\* impl From<DieselError> for DatabaseError
DatabaseErrorFromDieselError(error) ==
    CASE error.kind = "NotFound" ->
            DatabaseError("RecordNotFound", DieselErrorDisplay(error))
      [] error.kind = "DatabaseError" -> DatabaseError("QueryFailed", error.info)
      [] error.kind = "RollbackTransaction" ->
            DatabaseError("TransactionFailed", DieselErrorDisplay(error))
      [] error.kind = "AlreadyInTransaction" ->
            DatabaseError("TransactionFailed", "Already in transaction")
      [] error.kind = "NotInTransaction" ->
            DatabaseError("TransactionFailed", "Not in transaction")
      [] OTHER -> DatabaseError("QueryFailed", DieselErrorDisplay(error))

\* impl fmt::Display for DatabaseError
DatabaseErrorDisplay(e) ==
    CASE e.variant = "ConnectionFailed" -> "Database connection failed: " \o e.msg
      [] e.variant = "QueryFailed" -> "Database query failed: " \o e.msg
      [] e.variant = "RecordNotFound" -> "Record not found: " \o e.msg
      [] e.variant = "UniqueViolation" -> "Unique constraint violation: " \o e.msg
      [] e.variant = "TransactionFailed" -> "Transaction failed: " \o e.msg
      [] e.variant = "PoolError" -> "Connection pool error: " \o e.msg

\* #[derive(Debug)] for DatabaseError: format!("{:?}", error)
DatabaseErrorDebug(e) == e.variant \o "(\"" \o e.msg \o "\")"

\* a slip in the match: the pool's failure put with the query failures
ErrorCodeOf_PoolAsQuery(error) ==
    CASE error.variant = "ConnectionFailed" -> "ConnectionPoolError"
      [] error.variant \in {"QueryFailed", "TransactionFailed", "PoolError"} -> "DatabaseError"
      [] error.variant = "RecordNotFound" -> "NotFound"
      [] error.variant = "UniqueViolation" -> "Conflict"

\* a slip in the match: the uniqueness violation put with the query failures
ErrorCodeOf_ConflictAsQuery(error) ==
    CASE error.variant \in {"ConnectionFailed", "PoolError"} -> "ConnectionPoolError"
      [] error.variant \in {"QueryFailed", "TransactionFailed", "UniqueViolation"} ->
            "DatabaseError"
      [] error.variant = "RecordNotFound" -> "NotFound"

\* the match of From<DatabaseError> for ApiError: the ErrorCode of a variant
ErrorCodeOf(error) ==
    CASE error.variant \in {"ConnectionFailed", "PoolError"} -> "ConnectionPoolError"
      [] error.variant \in {"QueryFailed", "TransactionFailed"} -> "DatabaseError"
      [] error.variant = "RecordNotFound" -> "NotFound"
      [] error.variant = "UniqueViolation" -> "Conflict"

\* impl From<DatabaseError> for ApiError
ApiErrorFromDatabaseError(error) ==
    [code |-> ErrorCodeOf(error),
     message |-> DatabaseErrorDisplay(error),
     details |-> [error_type |-> DatabaseErrorDebug(error)],
     source |-> error]

\* the `?` of a repository call: From<DieselError>, then From<DatabaseError>
ApiErrorFromDieselError(error) ==
    ApiErrorFromDatabaseError(DatabaseErrorFromDieselError(error))

NoDieselError == DieselError("none", "none", "")
NoDatabaseError == DatabaseError("none", "")
NoApiError ==
    [code |-> "none", message |-> "", details |-> [error_type |-> ""],
     source |-> NoDatabaseError]

ErrIdle ==
    [stage |-> "idle", diesel |-> <<NoDieselError, NoDieselError>>,
     db |-> <<NoDatabaseError, NoDatabaseError>>, api |-> <<NoApiError, NoApiError>>]

\* two failures enter the chain side by side: two database errors from a
\* query, or two DatabaseError values built elsewhere (the pool's, a
\* repository's own)
ErrInit ==
    \/ \E d1 \in DieselErrors, d2 \in DieselErrors :
           errs = [ErrIdle EXCEPT !.stage = "diesel", !.diesel = <<d1, d2>>]
    \/ \E v1 \in DatabaseErrorVariants, v2 \in DatabaseErrorVariants,
          t1 \in ErrTexts, t2 \in ErrTexts :
           errs = [ErrIdle EXCEPT !.stage = "db",
                                  !.db = <<DatabaseError(v1, t1), DatabaseError(v2, t2)>>]

ErrFromDiesel ==
    /\ errs.stage = "diesel"
    /\ errs' = [errs EXCEPT !.stage = "db",
                            !.db = <<DatabaseErrorFromDieselError(errs.diesel[1]),
                                     DatabaseErrorFromDieselError(errs.diesel[2])>>]
    /\ UNCHANGED <<pag, orgs, checkedOut, task, last, deleted>>

ErrIntoApi ==
    /\ errs.stage = "db"
    /\ errs' = [errs EXCEPT !.stage = "api",
                            !.api = <<ApiErrorFromDatabaseError(errs.db[1]),
                                      ApiErrorFromDatabaseError(errs.db[2])>>]
    /\ UNCHANGED <<pag, orgs, checkedOut, task, last, deleted>>

(***************************************************************************)
(* Pagination (db/repositories/base.rs).                                   *)
(***************************************************************************)
PaginationParams(page, per_page) == [page |-> page, per_page |-> per_page]

\* (total as f64 / pagination.per_page as f64).ceil() as i64
TotalPages(total, per_page) ==
    F64ToI64(F64Ceil(F64Div(F64FromI64(total), F64FromI64(per_page))))

\* a slip in the page count: the integer quotient plus one
PaginatedResponseNew_QuotientPlusOne(data, total, pagination) ==
    LET total_pages ==
            [neg |-> FALSE,
             mag |-> BNAdd(BNDivMod(total.mag, pagination.per_page.mag).q, BN(1))]
    IN  [data |-> data,
         meta |-> [current_page |-> pagination.page,
                   per_page |-> pagination.per_page,
                   total_items |-> total,
                   total_pages |-> total_pages,
                   has_next_page |-> I64Lt(pagination.page, total_pages),
                   has_previous_page |-> I64Lt(I64(1), pagination.page)]]

PaginatedResponseNew(data, total, pagination) ==
    LET total_pages == TotalPages(total, pagination.per_page)
    IN  [data |-> data,
         meta |-> [current_page |-> pagination.page,
                   per_page |-> pagination.per_page,
                   total_items |-> total,
                   total_pages |-> total_pages,
                   has_next_page |-> I64Lt(pagination.page, total_pages),
                   has_previous_page |-> I64Lt(I64(1), pagination.page)]]

\* the inputs of the pagination helper: row counts, page sizes and page
\* numbers, small ones and ones next to 2^MantissaBits
PagTotals ==
    {I64(n) : n \in 0..MaxTotal}
        \cup {[neg |-> FALSE, mag |-> BNAdd(BNPow2(MantissaBits), BN(k))] : k \in 0..MaxBigOffset}

PagPerPages ==
    {I64(n) : n \in 1..MaxPerPage} \cup {[neg |-> FALSE, mag |-> BNPow2(MantissaBits)]}

PagPages ==
    {I64(n) : n \in 1..MaxPage} \cup {[neg |-> FALSE, mag |-> BNPow2(MantissaBits)]}

PagIdle == [total |-> I64(0), pagination |-> PaginationParams(I64(1), I64(1)), resp |-> <<>>]

PagInit ==
    pag \in [total : PagTotals,
             pagination : {PaginationParams(p, pp) : p \in PagPages, pp \in PagPerPages},
             resp : {<<>>}]

\* a caller builds the response of one page
PagNew ==
    /\ pag.resp = <<>>
    /\ pag' = [pag EXCEPT !.resp = <<PaginatedResponseNew(<<>>, pag.total, pag.pagination)>>]
    /\ UNCHANGED <<errs, orgs, checkedOut, task, last, deleted>>

(***************************************************************************)
(* The store and the service layer.  OrganizationService, its repository   *)
(* and get_connection are not among the sources: they follow the           *)
(* repository contract (find_by_id, create, update, soft_delete, list)     *)
(* and report their failures as diesel errors through the chain above.     *)
(***************************************************************************)
Names == {"acme", "globex"}
Tasks == 1..NumTasks
OrgIds == 1..MaxOrgs

Row(id, name, active) == [id |-> id, name |-> name, active |-> active]

IsLive(rows, id) == \E i \in 1..Len(rows) : rows[i].id = id /\ rows[i].active

IsKnown(rows, id) == \E i \in 1..Len(rows) : rows[i].id = id

NameTaken(rows, name, except) ==
    \E i \in 1..Len(rows) : rows[i].active /\ rows[i].name = name /\ rows[i].id # except

IsActive(r) == r.active

LiveRows(rows) == SelectSeq(rows, IsActive)

Ok(val) == [ok |-> TRUE, val |-> val, err |-> NoApiError]

Err(e) == [ok |-> FALSE, val |-> <<>>, err |-> e]

UniqueViolationReported == DieselError("DatabaseError", "UniqueViolation", "duplicate key")

OrganizationServiceFindById(rows, id) ==
    IF IsLive(rows, id)
    THEN Ok(<<rows[CHOOSE i \in 1..Len(rows) : rows[i].id = id]>>)
    ELSE Err(ApiErrorFromDieselError(DieselNotFound))

OrganizationServiceCreate(rows, name) ==
    IF NameTaken(rows, name, 0)
    THEN [res |-> Err(ApiErrorFromDieselError(UniqueViolationReported)), rows |-> rows]
    ELSE LET row == Row(Len(rows) + 1, name, TRUE)
         IN  [res |-> Ok(<<row>>), rows |-> Append(rows, row)]

OrganizationServiceUpdate(rows, id, name) ==
    IF ~IsLive(rows, id)
    THEN [res |-> Err(ApiErrorFromDieselError(DieselNotFound)), rows |-> rows]
    ELSE IF NameTaken(rows, name, id)
    THEN [res |-> Err(ApiErrorFromDieselError(UniqueViolationReported)), rows |-> rows]
    ELSE LET i == CHOOSE j \in 1..Len(rows) : rows[j].id = id
             row == [rows[i] EXCEPT !.name = name]
         IN  [res |-> Ok(<<row>>), rows |-> [rows EXCEPT ![i] = row]]

OrganizationServiceDelete(rows, id) ==
    IF ~IsLive(rows, id)
    THEN [res |-> Err(ApiErrorFromDieselError(DieselNotFound)), rows |-> rows]
    ELSE LET i == CHOOSE j \in 1..Len(rows) : rows[j].id = id
             row == [rows[i] EXCEPT !.active = FALSE]
         IN  [res |-> Ok(<<row>>), rows |-> [rows EXCEPT ![i] = row]]

\* the live rows of one page, in insertion order.  A page below 1 or a
\* negative page size is outside the contract: the database refuses the
\* negative LIMIT or OFFSET, or the repository answers with no rows.
OrganizationServiceList(rows, pagination) ==
    LET page == I64ToInt(pagination.page)
        per_page == I64ToInt(pagination.per_page)
        live == LiveRows(rows)
        first == (page - 1) * per_page + 1
        upto == IF page * per_page < Len(live) THEN page * per_page ELSE Len(live)
    IN  IF page < 1 \/ per_page < 0
        THEN {Err(ApiErrorFromDieselError(
                      DieselError("DatabaseError", "Unknown", "LIMIT must not be negative"))),
              Ok(<<>>)}
        ELSE {Ok(SubSeq(live, first, upto))}

(***************************************************************************)
(* The HTTP handlers (api/handlers/organization.rs).  A handler runs on    *)
(* one worker task; the tasks interleave where a handler waits for the     *)
(* pool or for the database.                                               *)
(***************************************************************************)
DefaultLimit == 10
DefaultOffset == 0

\* Option<T> is a sequence of at most one element
UnwrapOr(opt, default) == IF opt = <<>> THEN default ELSE opt[1]

\* i64 division truncates towards zero
TruncDiv(a, b) ==
    LET q == (IF a < 0 THEN -a ELSE a) \div (IF b < 0 THEN -b ELSE b)
    IN  IF (a < 0) # (b < 0) THEN -q ELSE q

Request(op, id, name, limit, offset) ==
    [op |-> op, id |-> id, name |-> name, limit |-> limit, offset |-> offset]

NoRequest == Request("none", 0, "", <<>>, <<>>)

\* the limit and offset query parameters a client sends
QueryLimits == {<<>>, <<-1>>, <<0>>, <<1>>}

QueryOffsets == {<<>>, <<-1>>, <<1>>}

IdleTask ==
    [pc |-> "idle", req |-> NoRequest,
     pagination |-> PaginationParams(I64(1), I64(1)), held |-> 0]

\* what a request came to.  kind is "ok" (a success response), "error" (an
\* ApiError returned) or "panic" (the handler aborted and answered nothing).
\* The fields from conn on are history: whether a connection was asked for
\* and obtained, whether the service layer was called, and what the store
\* held when it was.
Outcome(req, kind, status, error, data, meta, hist) ==
    [req |-> req, kind |-> kind, status |-> status, error |-> error,
     data |-> data, meta |-> meta,
     conn |-> hist.conn, serviceCalled |-> hist.serviceCalled,
     storeChanged |-> hist.storeChanged, idKnown |-> hist.idKnown,
     afterDelete |-> hist.afterDelete, collided |-> hist.collided,
     liveTotal |-> hist.liveTotal]

NoHistory ==
    [conn |-> "none", serviceCalled |-> FALSE, storeChanged |-> FALSE, idKnown |-> FALSE,
     afterDelete |-> FALSE, collided |-> FALSE, liveTotal |-> 0]

NoMeta == <<>>

NoOutcome == Outcome(NoRequest, "none", 0, NoApiError, <<>>, NoMeta, NoHistory)

\* the history of a service call made for req on the store rows
History(req, rows, rowsAfter) ==
    [conn |-> "ok", serviceCalled |-> TRUE, storeChanged |-> (rowsAfter # rows),
     idKnown |-> IsKnown(rows, req.id),
     afterDelete |-> (req.id \in deleted),
     collided |-> NameTaken(rows, req.name, IF req.op = "update" THEN req.id ELSE 0),
     liveTotal |-> Len(LiveRows(rows))]

\* get_connection(&pool)?: a connection is checked out and the handler goes
\* on as next, or none is to be had and the handler returns the pool's error
GetConnection(t, req, next) ==
    \/ /\ checkedOut < PoolSize
       /\ checkedOut' = checkedOut + 1
       /\ task' = [task EXCEPT ![t] = [next EXCEPT !.held = task[t].held + 1]]
       /\ UNCHANGED <<pag, errs, orgs, last, deleted>>
    \/ /\ checkedOut >= PoolSize
       /\ UNCHANGED <<pag, errs, orgs, checkedOut, task, deleted>>
       /\ last' = Outcome(req, "error", 0,
                          ApiErrorFromDatabaseError(DatabaseError("PoolError", "timed out")),
                          <<>>, NoMeta,
                          [NoHistory EXCEPT !.conn = "failed", !.storeChanged = (orgs' # orgs)])

\* the handler returns: its connection guard goes out of scope
Return(t) ==
    /\ task' = [task EXCEPT ![t] = IdleTask]
    /\ checkedOut' = checkedOut - task[t].held
    /\ UNCHANGED <<pag, errs>>

\* the response of a handler whose service call gave res: Ok(...) with the
\* handler's status, or the error `?` returns
Respond(req, res, status, meta, hist) ==
    IF res.ok
    THEN Outcome(req, "ok", status, NoApiError, res.val, meta, hist)
    ELSE Outcome(req, "error", 0, res.err, <<>>, NoMeta, hist)

\* an idle worker task may take a request once the last response has gone out
CanTake(t) == task[t].pc = "idle" /\ last = NoOutcome

\* get_organization up to get_connection; the path parameter is read after it
GetOrganizationBegin(t) ==
    /\ CanTake(t)
    /\ LET req == Request("get", 0, "", <<>>, <<>>)
       IN  GetConnection(t, req, [IdleTask EXCEPT !.pc = "get", !.req = req])

GetOrganizationEnd(t, id) ==
    /\ task[t].pc = "get" /\ last = NoOutcome
    /\ LET req == [task[t].req EXCEPT !.id = id]
           res == OrganizationServiceFindById(orgs, req.id)
       IN  last' = Respond(req, res, 200, NoMeta, History(req, orgs, orgs))
    /\ Return(t)
    /\ UNCHANGED <<orgs, deleted>>

\* list_organizations up to get_connection
ListOrganizationsBegin(t, qlimit, qoffset) ==
    /\ CanTake(t)
    /\ LET req == Request("list", 0, "", qlimit, qoffset)
           limit == UnwrapOr(qlimit, DefaultLimit)
           offset == UnwrapOr(qoffset, DefaultOffset)
       IN  \/ /\ limit = 0        \* offset / limit: attempt to divide by zero
              /\ last' = Outcome(req, "panic", 0, NoApiError, <<>>, NoMeta, NoHistory)
              /\ UNCHANGED <<pag, errs, orgs, checkedOut, task, deleted>>
           \/ /\ limit # 0
              /\ LET page == TruncDiv(offset, limit) + 1
                 IN  GetConnection(t, req,
                         [IdleTask EXCEPT !.pc = "list", !.req = req,
                              !.pagination = PaginationParams(I64(page), I64(limit))])

ListOrganizationsEnd(t) ==
    /\ task[t].pc = "list" /\ last = NoOutcome
    /\ \E res \in OrganizationServiceList(orgs, task[t].pagination) :
          LET req == task[t].req
              total == I64(Len(res.val))
              meta == <<PaginatedResponseNew(res.val, total, task[t].pagination).meta>>
          IN  last' = Respond(req, res, 200, IF res.ok THEN meta ELSE NoMeta,
                              History(req, orgs, orgs))
    /\ Return(t)
    /\ UNCHANGED <<orgs, deleted>>

\* the creations in flight
Creating == Cardinality({t \in Tasks : task[t].pc = "create"})

CreateOrganizationBegin(t) ==
    /\ CanTake(t)
    /\ Len(orgs) + Creating < MaxOrgs
    /\ LET req == Request("create", 0, "", <<>>, <<>>)
       IN  GetConnection(t, req, [IdleTask EXCEPT !.pc = "create", !.req = req])

CreateOrganizationEnd(t, name) ==
    /\ task[t].pc = "create" /\ last = NoOutcome
    /\ LET req == [task[t].req EXCEPT !.name = name]
           r == OrganizationServiceCreate(orgs, req.name)
       IN  /\ orgs' = r.rows
           /\ last' = Respond(req, r.res, 201, NoMeta, History(req, orgs, r.rows))
    /\ Return(t)
    /\ UNCHANGED deleted

UpdateOrganizationBegin(t) ==
    /\ CanTake(t)
    /\ LET req == Request("update", 0, "", <<>>, <<>>)
       IN  GetConnection(t, req, [IdleTask EXCEPT !.pc = "update", !.req = req])

\* a slip in update_organization: the connection is kept when the service fails
UpdateOrganizationEnd_Leak(t, id, name) ==
    /\ task[t].pc = "update" /\ last = NoOutcome
    /\ LET req == [task[t].req EXCEPT !.id = id, !.name = name]
           r == OrganizationServiceUpdate(orgs, req.id, req.name)
       IN  /\ orgs' = r.rows
           /\ last' = Respond(req, r.res, 200, NoMeta, History(req, orgs, r.rows))
           /\ task' = [task EXCEPT ![t] = IdleTask]
           /\ checkedOut' = IF r.res.ok THEN checkedOut - task[t].held ELSE checkedOut
    /\ UNCHANGED <<pag, errs, deleted>>

UpdateOrganizationEnd(t, id, name) ==
    /\ task[t].pc = "update" /\ last = NoOutcome
    /\ LET req == [task[t].req EXCEPT !.id = id, !.name = name]
           r == OrganizationServiceUpdate(orgs, req.id, req.name)
       IN  /\ orgs' = r.rows
           /\ last' = Respond(req, r.res, 200, NoMeta, History(req, orgs, r.rows))
    /\ Return(t)
    /\ UNCHANGED deleted

DeleteOrganizationBegin(t) ==
    /\ CanTake(t)
    /\ LET req == Request("delete", 0, "", <<>>, <<>>)
       IN  GetConnection(t, req, [IdleTask EXCEPT !.pc = "delete", !.req = req])

DeleteOrganizationEnd(t, id) ==
    /\ task[t].pc = "delete" /\ last = NoOutcome
    /\ LET req == [task[t].req EXCEPT !.id = id]
           r == OrganizationServiceDelete(orgs, req.id)
       IN  /\ orgs' = r.rows
           /\ last' = [Respond(req, r.res, 204, NoMeta, History(req, orgs, r.rows))
                          EXCEPT !.data = <<>>]
           /\ deleted' = IF r.res.ok THEN deleted \cup {req.id} ELSE deleted
    /\ Return(t)

\* the framework writes the response (or drops the connection of a handler
\* that panicked); nothing of the service's state changes
ResponseSent ==
    /\ last # NoOutcome
    /\ last' = NoOutcome
    /\ UNCHANGED <<pag, errs, orgs, checkedOut, task, deleted>>

HandlersIdle ==
    /\ orgs = <<>>
    /\ checkedOut = 0
    /\ task = [t \in Tasks |-> IdleTask]
    /\ last = NoOutcome
    /\ deleted = {}

Init == pag = PagIdle /\ errs = ErrIdle /\ HandlersIdle

Next ==
    \/ \E t \in Tasks : GetOrganizationBegin(t)
    \/ \E t \in Tasks, id \in OrgIds : GetOrganizationEnd(t, id)
    \/ \E t \in Tasks, l \in QueryLimits, o \in QueryOffsets : ListOrganizationsBegin(t, l, o)
    \/ \E t \in Tasks : ListOrganizationsEnd(t)
    \/ \E t \in Tasks : CreateOrganizationBegin(t)
    \/ \E t \in Tasks, n \in Names : CreateOrganizationEnd(t, n)
    \/ \E t \in Tasks : UpdateOrganizationBegin(t)
    \/ \E t \in Tasks, id \in OrgIds, n \in Names : UpdateOrganizationEnd(t, id, n)
    \/ \E t \in Tasks : DeleteOrganizationBegin(t)
    \/ \E t \in Tasks, id \in OrgIds : DeleteOrganizationEnd(t, id)
    \/ ResponseSent

Spec == Init /\ [][Next]_vars

\* the pagination helper on its own
PageInit == PagInit /\ errs = ErrIdle /\ HandlersIdle

PageNext == PagNew

SpecPage == PageInit /\ [][PageNext]_vars

\* the error translation chain on its own
ErrorInit == ErrInit /\ pag = PagIdle /\ HandlersIdle

ErrorNext == ErrFromDiesel \/ ErrIntoApi

SpecErr == ErrorInit /\ [][ErrorNext]_vars

(***************************************************************************)
(* The claims.                                                             *)
(***************************************************************************)
\* the ceiling of total / per_page in exact integer arithmetic
CeilDiv(total, per_page) ==
    LET dm == BNDivMod(total.mag, per_page.mag)
    IN  [neg |-> FALSE, mag |-> IF dm.r = <<>> THEN dm.q ELSE BNAdd(dm.q, BN(1))]

\* C1: for every total >= 0, per_page > 0 and page >= 1 the meta of
\* PaginatedResponse::new has total_pages = ceil(total / per_page),
\* has_next_page exactly when page < total_pages, has_previous_page exactly
\* when page > 1, and current_page, per_page, total_items equal to the inputs.
C1_MetaIsCeiling ==
    pag.resp # <<>> =>
        LET m == pag.resp[1].meta
            tp == CeilDiv(pag.total, pag.pagination.per_page)
        IN  /\ m.total_pages = tp
            /\ m.has_next_page <=> I64Lt(pag.pagination.page, tp)
            /\ m.has_previous_page <=> I64Lt(I64(1), pag.pagination.page)
            /\ m.current_page = pag.pagination.page
            /\ m.per_page = pag.pagination.per_page
            /\ m.total_items = pag.total

\* C10 as stated: for total = 0, any per_page > 0 and any page >= 1,
\* total_pages = 0 and both has_next_page and has_previous_page are false.
C10_BothFlagsFalse ==
    (pag.resp # <<>> /\ pag.total = I64(0)) =>
        LET m == pag.resp[1].meta
        IN  m.total_pages = I64(0) /\ ~m.has_next_page /\ ~m.has_previous_page

\* C10 as amended: for total = 0, any per_page > 0 and any page >= 1,
\* total_pages = 0 and has_next_page is false; has_previous_page is false
\* for page = 1 and true for every page > 1.
C10_ZeroTotal ==
    (pag.resp # <<>> /\ pag.total = I64(0)) =>
        LET m == pag.resp[1].meta
        IN  /\ m.total_pages = I64(0)
            /\ ~m.has_next_page
            /\ m.has_previous_page <=> (pag.pagination.page # I64(1))

\* C10's case: total = 0, per_page = 10, page = 1 gave total_pages = 0
C10_Witness ==
    /\ pag.resp # <<>>
    /\ pag.total = I64(0)
    /\ pag.pagination = PaginationParams(I64(1), I64(10))
    /\ pag.resp[1].meta.total_pages = I64(0)
    /\ ~pag.resp[1].meta.has_previous_page

\* the code each failure category is given, as amended in C4
CategoryCode(variant) ==
    CASE variant \in {"ConnectionFailed", "PoolError"} -> "ConnectionPoolError"
      [] variant \in {"QueryFailed", "TransactionFailed"} -> "DatabaseError"
      [] variant = "RecordNotFound" -> "NotFound"
      [] variant = "UniqueViolation" -> "Conflict"

\* C4 as stated: the translation of the six failure categories to error
\* codes is total and one-to-one: two distinct categories never get the
\* same code.
C4_OneToOne ==
    errs.stage = "api" =>
        /\ \A i \in 1..2 :
              errs.api[i].code \in {"ConnectionPoolError", "DatabaseError", "NotFound", "Conflict"}
        /\ errs.db[1].variant # errs.db[2].variant => errs.api[1].code # errs.api[2].code

\* C4 as amended: the translation is total and a function of the category
\* onto four codes: ConnectionFailed and PoolError give ConnectionPoolError,
\* QueryFailed and TransactionFailed give DatabaseError, RecordNotFound gives
\* NotFound and UniqueViolation gives Conflict; it is one-to-one only on
\* the last two, so the category is recoverable from the code only there.
C4_TotalManyToOne ==
    errs.stage = "api" =>
        /\ \A i \in 1..2 : errs.api[i].code = CategoryCode(errs.db[i].variant)
        /\ errs.db[1].variant = errs.db[2].variant => errs.api[1].code = errs.api[2].code
        /\ (errs.api[1].code = errs.api[2].code /\ errs.api[1].code \in {"NotFound", "Conflict"})
              => errs.db[1].variant = errs.db[2].variant

\* C4's case: ConnectionFailed and PoolError were translated to one code
C4_Witness ==
    /\ errs.stage = "api"
    /\ errs.db[1].variant = "ConnectionFailed"
    /\ errs.db[2].variant = "PoolError"
    /\ errs.api[1].code = errs.api[2].code

\* C5: code, message and context details of the ApiError built from a
\* DatabaseError depend only on the variant: two errors of one variant with
\* different inner texts give the same code, message and details.
C5_ClientPartByCategory ==
    (errs.stage = "api" /\ errs.db[1].variant = errs.db[2].variant) =>
        /\ errs.api[1].code = errs.api[2].code
        /\ errs.api[1].message = errs.api[2].message
        /\ errs.api[1].details = errs.api[2].details

\* C2: a create whose name collides with a live organization is answered
\* with an error of code Conflict.
C2_CollisionIsConflict ==
    (last.req.op = "create" /\ last.collided) =>
        (last.kind = "error" /\ last.error.code = "Conflict")

\* C3: a get, update or delete of an id whose delete succeeded before, or
\* of an id never created, is answered NotFound; and a deleted row is still
\* in the store, marked inactive.
C3_DeletedStaysGone ==
    /\ (/\ last.req.op \in {"get", "update", "delete"}
        /\ last.serviceCalled
        /\ (last.afterDelete \/ ~last.idKnown))
            => (last.kind = "error" /\ last.error.code = "NotFound")
    /\ \A id \in deleted : \E i \in 1..Len(orgs) : orgs[i].id = id /\ ~orgs[i].active

\* C3's case: an update of an id deleted before was answered NotFound, the
\* row still in the store
C3_Witness ==
    /\ last.req.op = "update"
    /\ last.afterDelete
    /\ last.error.code = "NotFound"
    /\ last.req.id \in deleted
    /\ IsKnown(orgs, last.req.id)

\* C6: every PaginationParams list_organizations builds has page >= 1 and
\* per_page > 0; a request with limit <= 0 or offset < 0 is answered with a
\* 400 error, the service layer and PaginatedResponse::new not reached, and
\* the handler never aborts without a response.
C6_ListValidates ==
    /\ \A t \in Tasks :
          task[t].pc = "list" =>
              /\ I64Lt(I64(0), task[t].pagination.page)
              /\ I64Lt(I64(0), task[t].pagination.per_page)
    /\ last.req.op = "list" => last.kind # "panic"
    /\ (/\ last.req.op = "list"
        /\ \/ UnwrapOr(last.req.limit, DefaultLimit) <= 0
           \/ UnwrapOr(last.req.offset, DefaultOffset) < 0)
            => /\ last.kind = "error"
               /\ last.error.code = "Validation"
               /\ ~last.serviceCalled
               /\ last.meta = NoMeta

\* C7: a handler calls the service layer only with a connection acquired;
\* a request that could not get one is answered ConnectionPoolError, the
\* service layer not called and the store as it was.
C7_AcquireBeforeService ==
    /\ last.conn = "failed" =>
          /\ last.kind = "error"
          /\ last.error.code = "ConnectionPoolError"
          /\ ~last.serviceCalled
          /\ ~last.storeChanged
    /\ last.serviceCalled => last.conn = "ok"
    /\ \A t \in Tasks : task[t].pc # "idle" => task[t].held = 1

\* C7's case: a delete found the pool exhausted
C7_Witness ==
    /\ last.req.op = "delete"
    /\ last.conn = "failed"
    /\ checkedOut = PoolSize
    /\ orgs # <<>>

RECURSIVE HeldBy(_)
HeldBy(n) == IF n = 0 THEN 0 ELSE task[n].held + HeldBy(n - 1)

\* C8: each handler holds at most one connection, the connections checked
\* out are those the handlers hold and never more than the pool's size, a
\* handler that has returned holds none, and with no request in flight
\* none is checked out.
C8_PoolBounded ==
    /\ \A t \in Tasks : task[t].held <= 1
    /\ \A t \in Tasks : task[t].pc = "idle" => task[t].held = 0
    /\ checkedOut = HeldBy(NumTasks)
    /\ checkedOut <= PoolSize
    /\ (\A t \in Tasks : task[t].pc = "idle") => checkedOut = 0

\* C8's case: an update failed in the service layer, and with every
\* handler back no connection is checked out
C8_Witness ==
    /\ last.req.op = "update"
    /\ last.kind = "error"
    /\ last.conn = "ok"
    /\ \A t \in Tasks : task[t].pc = "idle"
    /\ checkedOut = 0

\* C9: the meta of a list response is computed from the number of live
\* organizations in the store: total_items is that number, total_pages its
\* ceiling division by per_page, has_next_page true exactly when live
\* organizations exist beyond the returned page.  Stated of the requests
\* with limit > 0 and offset >= 0.
C9_MetaFromLiveTotal ==
    (/\ last.req.op = "list" /\ last.kind = "ok" /\ last.meta # NoMeta
     /\ UnwrapOr(last.req.limit, DefaultLimit) > 0
     /\ UnwrapOr(last.req.offset, DefaultOffset) >= 0) =>
        LET m == last.meta[1]
            total == I64(last.liveTotal)
        IN  /\ m.total_items = total
            /\ m.total_pages = CeilDiv(total, m.per_page)
            /\ m.has_next_page <=>
                  (I64ToInt(m.current_page) * I64ToInt(m.per_page) < last.liveTotal)

=============================================================================
